---- MODULE Spec2Model ----
(***************************************************************************)
(* A model of the Consul client of src/src/client.ts: the transport layer  *)
(* (HttpClient.buildUrl / HttpClient.request) and the eleven endpoint      *)
(* groups built on it.  One call is followed from the caller's invocation  *)
(* through the single await on the network-call function to the value or   *)
(* error the caller receives.  Spec follows calls with the options their   *)
(* signatures declare; ConfigSpec follows calls without options over more  *)
(* client configurations and path arguments; UntypedSpec follows calls     *)
(* with option mappings of arbitrary values; ConcurrentSpec follows        *)
(* several calls in flight on one client, together with the objects the    *)
(* caller handed over.                                                     *)
(*                                                                         *)
(* Text is modelled as a sequence of atoms: an atom is either a run of     *)
(* characters that URL encoding leaves alone ("node-meta", "prod") or one  *)
(* special character ("=", "&", " ").  Encoding works atom by atom, so an  *)
(* encoded text and its source can differ.                                 *)
(***************************************************************************)
EXTENDS Integers, Sequences, FiniteSets, TLC

VARIABLES
    baseUrl,         \* HttpClient._baseUrl
    defaultHeaders,  \* HttpClient._defaultHeaders
    pc,              \* "idle" | "awaiting" (await this._fetchFn) | "done"
    call,            \* the endpoint method being run and its arguments
    requests,        \* the (url, requestInit) pairs handed to _fetchFn by this call
    response,        \* what _fetchFn resolved with, if it did
    outcome,         \* what the caller receives: a value or an error
    logs             \* the errors this call passed to console.error

vars == <<baseUrl, defaultHeaders, pc, call, requests, response, outcome, logs>>

(***************************************************************************)
(* Bounds of the model.                                                    *)
(***************************************************************************)
MaxListLen == 2   \* longest list in a decoded response body
MaxMeta == 2      \* most entries of a caller's nodeMeta mapping
MaxOpts == 2      \* most option fields a caller sets in one call
MaxConfig == 2    \* most fields set in a client configuration (ConfigSpec)
MaxParams == 2    \* most entries of a caller's untyped options mapping (UntypedSpec)
MaxCalls == 2     \* most calls in flight on one client (ConcurrentSpec)

(***************************************************************************)
(* JavaScript values.  Every value is a record of one shape so that any    *)
(* two can be compared: t is the type tag, s the string form of a          *)
(* primitive, items the elements of a list (or the one object of "obj"),   *)
(* m the entries of a string-to-string mapping.                            *)
(***************************************************************************)
Val(t, s, items, m) == [t |-> t, s |-> s, items |-> items, m |-> m]

Undefined == Val("undefined", "", <<>>, <<>>)
Null      == Val("null", "", <<>>, <<>>)
Str(s)    == Val("str", s, <<>>, <<>>)
Num(s)    == Val("num", s, <<>>, <<>>)
Bool(s)   == Val("bool", s, <<>>, <<>>)
Obj(o)    == Val("obj", "", <<o>>, <<>>)
List(xs)  == Val("list", "", xs, <<>>)
Map(m)    == Val("map", "", <<>>, m)
\* a decoded TxnResponse: its Results, and its Errors as OpIndex/What entries
TxnResponse(results, errors) == Val("txn", "", results, errors)
\* byte payloads: a Node Buffer, an ArrayBuffer, and the JSON text of a value
Buffer(s)      == Val("buffer", s, <<>>, <<>>)
ArrayBuf(s)    == Val("arraybuffer", s, <<>>, <<>>)
\* JSON.stringify leaves out the properties whose value is undefined
DefinedEntry(e) == e.v.t # "undefined"
JsonText(v)    == Val("jsontext", v.t \o ":" \o v.s, v.items, SelectSeq(v.m, DefinedEntry))

True  == Bool("true")
False == Bool("false")

\* JavaScript truthiness (the `!x` and `if (x)` tests of the source)
Truthy(v) ==
    CASE v.t = "undefined" -> FALSE
      [] v.t = "null"      -> FALSE
      [] v.t = "str"       -> v.s # ""
      [] v.t = "num"       -> v.s # "0"
      [] v.t = "bool"      -> v.s = "true"
      [] OTHER             -> TRUE

IsArray(v) == v.t = "list"

\* value.toString() as buildUrl applies it to a query-parameter value
toString(v) ==
    CASE v.t \in {"str", "num", "bool"} -> v.s
      [] v.t = "map"                   -> "[object Object]"
      [] OTHER                         -> v.t

(***************************************************************************)
(* JavaScript objects used as mappings (option bags, query parameters,     *)
(* header sets): a sequence of entries [k, v] in insertion order.          *)
(***************************************************************************)
Entry(k, v) == [k |-> k, v |-> v]

Has(obj, k) == \E i \in 1..Len(obj) : obj[i].k = k

\* obj[k], Undefined when the key is absent
Get(obj, k) ==
    IF Has(obj, k)
    THEN obj[CHOOSE i \in 1..Len(obj) : obj[i].k = k].v
    ELSE Undefined

\* obj[k] = v: an existing key keeps its place, a new key goes last
Put(obj, k, v) ==
    IF Has(obj, k)
    THEN [i \in 1..Len(obj) |-> IF obj[i].k = k THEN Entry(k, v) ELSE obj[i]]
    ELSE Append(obj, Entry(k, v))

\* { ...a, ...b }
RECURSIVE Spread(_, _)
Spread(a, b) ==
    IF b = <<>> THEN a ELSE Spread(Put(a, Head(b).k, Head(b).v), Tail(b))

\* An optional object argument: given = FALSE is `undefined`.
Absent    == [given |-> FALSE, e |-> <<>>]
Given(e)  == [given |-> TRUE, e |-> e]

(***************************************************************************)
(* ConsulClient.constructor: the base URL and the default headers.  A      *)
(* configuration field that the caller left out holds "".                  *)
(***************************************************************************)
DefaultHost == <<"localhost">>
DefaultPort == "8500"

ConstructBaseUrl(options) ==
    LET host     == IF options.host # <<>> THEN options.host ELSE DefaultHost
        port     == IF options.port \notin {"", "0"} THEN options.port ELSE DefaultPort
        protocol == IF options.secure THEN "https" ELSE "http"
    IN  <<protocol, "://">> \o host \o <<":", port, "/", "v1">>

ConstructHeaders(options) ==
    LET headers == Spread(<<>>, options.headers)
    IN  IF options.token # ""
        THEN Put(headers, "X-Consul-Token", Str(options.token))
        ELSE headers

(***************************************************************************)
(* HttpClient.buildUrl.  `new URL(text)` parses protocol://host:port/path  *)
(* and fails on a host with a forbidden character; url.toString() drops    *)
(* the scheme's default port, resolves the "." and ".." segments of the    *)
(* path and percent-encodes it;                                            *)
(* url.searchParams serializes names and values in the                     *)
(* application/x-www-form-urlencoded form.                                 *)
(***************************************************************************)
HostEnd(text) ==
    CHOOSE i \in 3..Len(text) :
        /\ text[i] = ":"
        /\ \A j \in 3..(i - 1) : text[j] # ":"

UrlHost(text) == SubSeq(text, 3, HostEnd(text) - 1)
UrlPort(text) == text[HostEnd(text) + 1]
UrlPath(text) == SubSeq(text, HostEnd(text) + 2, Len(text))

ForbiddenHostAtoms == {" ", "#", "<", ">", "^", "|"}

UrlParses(text) == \A i \in 1..Len(UrlHost(text)) : UrlHost(text)[i] \notin ForbiddenHostAtoms

PathEncode(a) ==
    CASE a = " " -> "%20"
      [] a = "<" -> "%3C"
      [] a = ">" -> "%3E"
      [] OTHER   -> a

FormEncode(a) ==
    CASE a = "=" -> "%3D"
      [] a = "&" -> "%26"
      [] a = ":" -> "%3A"
      [] a = "/" -> "%2F"
      [] a = "?" -> "%3F"
      [] a = " " -> "+"
      [] OTHER   -> a

\* the pieces of a text between the occurrences of a separator
Contains(text, a) == \E i \in 1..Len(text) : text[i] = a

First(text, a) == CHOOSE i \in 1..Len(text) : text[i] = a /\ \A j \in 1..(i - 1) : text[j] # a

RECURSIVE SplitAt(_, _)
SplitAt(text, sep) ==
    IF ~Contains(text, sep) THEN <<text>>
    ELSE <<SubSeq(text, 1, First(text, sep) - 1)>>
           \o SplitAt(SubSeq(text, First(text, sep) + 1, Len(text)), sep)

\* the URL parser's handling of "." and ".." path segments: the segments
\* kept so far, and whether the path ends in a slash
RECURSIVE DotSegments(_, _)
DotSegments(kept, segments) ==
    IF segments = <<>> THEN [kept |-> kept, slash |-> FALSE]
    ELSE LET seg  == Head(segments)
             rest == Tail(segments)
         IN  IF seg = <<"..">>
             THEN IF rest = <<>>
                  THEN [kept |-> SubSeq(kept, 1, Len(kept) - 1), slash |-> TRUE]
                  ELSE DotSegments(SubSeq(kept, 1, Len(kept) - 1), rest)
             ELSE IF seg = <<".">>
             THEN IF rest = <<>>
                  THEN [kept |-> kept, slash |-> TRUE]
                  ELSE DotSegments(kept, rest)
             ELSE DotSegments(Append(kept, seg), rest)

RECURSIVE JoinSegments(_)
JoinSegments(segments) ==
    IF segments = <<>> THEN <<>>
    ELSE <<"/">> \o Head(segments) \o JoinSegments(Tail(segments))

\* path is "/" followed by segments separated by "/"
RemoveDotSegments(path) ==
    LET done == DotSegments(<<>>, Tail(SplitAt(path, "/")))
    IN  IF done.kept = <<>> THEN <<"/">>
        ELSE JoinSegments(done.kept) \o (IF done.slash THEN <<"/">> ELSE <<>>)

PathEncodeText(text) == [i \in 1..Len(text) |-> PathEncode(text[i])]
FormEncodeText(text) == [i \in 1..Len(text) |-> FormEncode(text[i])]

\* new URL(text) followed by toString(), before any query entry is added
UrlHref(text) ==
    LET protocol == text[1]
        port     == UrlPort(text)
        dropPort == \/ (protocol = "http" /\ port = "80")
                    \/ (protocol = "https" /\ port = "443")
    IN  <<protocol, "://">> \o UrlHost(text)
          \o (IF dropPort THEN <<>> ELSE <<":", port>>)
          \o PathEncodeText(RemoveDotSegments(UrlPath(text)))

\* the entries url.searchParams.append collects: names and values as text
RECURSIVE SearchParams(_)
SearchParams(params) ==
    IF params = <<>> THEN <<>>
    ELSE LET key   == Head(params).k
             value == Head(params).v
             rest  == SearchParams(Tail(params))
         IN  IF value.t = "undefined" THEN rest
             ELSE IF IsArray(value)
             THEN [i \in 1..Len(value.items) |-> Entry(key, <<value.items[i]>>)] \o rest
             ELSE <<Entry(key, <<toString(value)>>)>> \o rest

\* the query string: name=value pairs joined by "&"
RECURSIVE QueryString(_)
QueryString(entries) ==
    IF entries = <<>> THEN <<>>
    ELSE FormEncodeText(Head(entries).k) \o <<"=">>
           \o FormEncodeText(Head(entries).v)
           \o (IF Len(entries) > 1 THEN <<"&">> ELSE <<>>)
           \o QueryString(Tail(entries))

\* null.toString() raises a TypeError
ToStringThrows(params) ==
    \E i \in 1..Len(params) : params[i].v.t = "null"

TypeError(msg) == [type |-> "TypeError", status |-> 0, statusText |-> "", text |-> msg]

\* path.startsWith("http") ? path : `${this._baseUrl}${path}`
UrlText(base, path) == IF path # <<>> /\ path[1] = "http" THEN path ELSE base \o path

\* the error buildUrl raises, if any (type "" when it raises none)
UrlError(text, params) ==
    IF ~UrlParses(text) THEN TypeError("Invalid URL")
    ELSE IF params.given /\ ToStringThrows(params.e) THEN TypeError("toString of null")
    ELSE [type |-> "", status |-> 0, statusText |-> "", text |-> ""]

buildUrl(base, path, params) ==
    LET text    == UrlText(base, path)
        err     == UrlError(text, params)
        entries == IF params.given THEN SearchParams(params.e) ELSE <<>>
    IN  IF err.type # ""
        THEN [ok |-> FALSE, url |-> <<>>, err |-> err]
        ELSE [ok |-> TRUE,
              url |-> UrlHref(text)
                        \o (IF entries = <<>> THEN <<>> ELSE <<"?">> \o QueryString(entries)),
              err |-> err]

(***************************************************************************)
(* HttpClient.request, first half: everything up to `await _fetchFn`.      *)
(* options = [params, body, headers, responseType]; a put/post without a   *)
(* body and every get/delete have body = Undefined.                        *)
(***************************************************************************)
ReqOptions(params, body, headers, responseType) ==
    [params |-> params, body |-> body, headers |-> headers, responseType |-> responseType]

NoRequest == [method |-> "", url |-> <<>>, headers |-> <<>>, body |-> Undefined]

ContentTypeFor(body) ==
    IF body.t \in {"str", "arraybuffer", "blob"}
    THEN "application/octet-stream"
    ELSE "application/json"

\* typeof body === "object"
TypeofObject(body) ==
    body.t \in {"null", "obj", "list", "map", "buffer", "arraybuffer", "blob"}

\* RequestHeaders with the defaults spread over the per-call headers
RequestHeaders_DefaultsWin(defaults, headers, body) ==
    LET merged == Spread(Spread(<<>>, headers), defaults)
    IN  IF Truthy(body) /\ ~Truthy(Get(merged, "Content-Type"))
        THEN Put(merged, "Content-Type", Str(ContentTypeFor(body)))
        ELSE merged

RequestHeaders(defaults, headers, body) ==
    LET merged == Spread(Spread(<<>>, defaults), headers)
    IN  IF Truthy(body) /\ ~Truthy(Get(merged, "Content-Type"))
        THEN Put(merged, "Content-Type", Str(ContentTypeFor(body)))
        ELSE merged

RequestBody(requestHeaders, body) ==
    IF body.t = "undefined" THEN Undefined
    ELSE IF Get(requestHeaders, "Content-Type") = Str("application/json")
            /\ TypeofObject(body)
    THEN JsonText(body)
    ELSE body

\* [ok, req, err]: the request handed to _fetchFn, or the error buildUrl raised
PrepareRequest(base, defaults, method, path, options) ==
    LET built          == buildUrl(base, path, options.params)
        requestHeaders == RequestHeaders(defaults, options.headers, options.body)
    IN  IF ~built.ok
        THEN [ok |-> FALSE, req |-> NoRequest, err |-> built.err]
        ELSE [ok  |-> TRUE,
              req |-> [method  |-> method,
                       url     |-> built.url,
                       headers |-> requestHeaders,
                       body    |-> RequestBody(requestHeaders, options.body)],
              err |-> built.err]

(***************************************************************************)
(* HttpClient.request, second half: the response _fetchFn resolved with.   *)
(* A response is [status, statusText, contentLength0, text, parses, json,  *)
(* singleUse, readFails]: text is the body's text, parses tells whether    *)
(* it is valid JSON and json is then its value; singleUse tells whether a  *)
(* second read of the body is rejected (as the Fetch standard has it);     *)
(* readFails tells whether reading the body stream fails.                  *)
(***************************************************************************)
Ok(resp) == resp.status >= 200 /\ resp.status <= 299

\* HttpError with a failed body read raised in place of the HTTP failure
HttpError_BodyReadMasks(resp) ==
    IF resp.readFails THEN TypeError("body read failed")
    ELSE [type       |-> "HttpError",
          status     |-> resp.status,
          statusText |-> resp.statusText,
          text       |-> resp.text]

HttpError(resp) ==
    [type       |-> "HttpError",
     status     |-> resp.status,
     statusText |-> resp.statusText,
     text       |-> IF resp.readFails THEN "Unknown error" ELSE resp.text]

NoError == [type |-> "", status |-> 0, statusText |-> "", text |-> ""]

Returned(v) == [kind |-> "return", v |-> v, err |-> NoError]
Thrown(err) == [kind |-> "throw", v |-> Undefined, err |-> err]
Pending     == [kind |-> "none", v |-> Undefined, err |-> NoError]

\* response.json() then, on failure, response.text()
DecodeJson(resp) ==
    IF resp.readFails THEN Thrown(TypeError("body read failed"))
    ELSE IF resp.parses THEN Returned(resp.json)
    ELSE IF resp.singleUse THEN Thrown(TypeError("Body is unusable"))
    ELSE Returned(Str(resp.text))

\* Decode whose json shape reads the body whatever the content-length is
Decode_NoShortcut(resp, responseType) ==
    IF ~Ok(resp) THEN Thrown(HttpError(resp))
    ELSE IF responseType \in {"arraybuffer", "blob"}
    THEN IF resp.readFails THEN Thrown(TypeError("body read failed"))
         ELSE Returned(Val(responseType, resp.text, <<>>, <<>>))
    ELSE IF responseType = "text"
    THEN IF resp.readFails THEN Thrown(TypeError("body read failed"))
         ELSE Returned(Str(resp.text))
    ELSE DecodeJson(resp)

Decode(resp, responseType) ==
    IF ~Ok(resp) THEN Thrown(HttpError(resp))
    ELSE IF responseType \in {"arraybuffer", "blob"}
    THEN IF resp.readFails THEN Thrown(TypeError("body read failed"))
         ELSE Returned(Val(responseType, resp.text, <<>>, <<>>))
    ELSE IF responseType = "text"
    THEN IF resp.readFails THEN Thrown(TypeError("body read failed"))
         ELSE Returned(Str(resp.text))
    ELSE IF resp.contentLength0 THEN Returned(Null)
    ELSE DecodeJson(resp)

(***************************************************************************)
(* The endpoint groups.  An operation is named group.method as on the      *)
(* ConsulClient object.                                                    *)
(***************************************************************************)
\* try { ... return true } catch { console.error; return false }
WriteOps ==
    {"agent.serviceRegister", "agent.serviceDeregister", "agent.checkRegister",
     "agent.checkDeregister", "agent.checkUpdate", "agent.join", "agent.leave",
     "agent.reload", "catalog.register", "catalog.deregister", "kv.put",
     "kv.delete", "session.destroy", "query.update", "query.delete",
     "snapshot.restore"}

\* try { ... collapse } catch { console.error; return null }
SingularOps == {"session.info", "session.renew", "coordinate.node", "query.get"}

\* try { ... } catch { return [] }
KVListOps == {"kv.keys", "kv.list"}

\* reads through CatalogClient._prepareBlockingParams
CatalogReads ==
    {"catalog.nodes", "catalog.services", "catalog.service", "catalog.connect",
     "catalog.nodeServices", "catalog.gatewayServices"}

\* reads through HealthClient._prepareParams
HealthServiceReads == {"health.service", "health.connect", "health.ingress"}
HealthReads == HealthServiceReads \cup {"health.node", "health.checks", "health.state"}

\* const params = { ...options }
SpreadReads ==
    {"kv.get", "session.info", "session.node", "session.list", "coordinate.nodes",
     "coordinate.node", "event.list"}

\* no try/catch: the transport's result or error is the caller's
PassThroughOps ==
    {"agent.self", "agent.members", "agent.services", "agent.checks", "agent.metrics",
     "agent.connect", "catalog.datacenters", "session.node", "session.list",
     "session.create", "event.fire", "event.list", "status.leader", "status.peers",
     "coordinate.nodes", "coordinate.datacenters", "query.create", "query.list",
     "query.execute", "txn.create", "snapshot.save"}
      \cup CatalogReads \cup HealthReads

Ops == WriteOps \cup SingularOps \cup KVListOps \cup {"kv.get"} \cup PassThroughOps

PutOps ==
    (WriteOps \ {"kv.delete", "query.delete"})
      \cup {"session.create", "session.renew", "event.fire", "txn.create"}

Method(op) ==
    CASE op \in PutOps                        -> "PUT"
      [] op = "query.create"                  -> "POST"
      [] op \in {"kv.delete", "query.delete"} -> "DELETE"
      [] OTHER                                -> "GET"

\* the fixed segments of the paths that go on with a caller-given text
SegmentPrefix(op) ==
    CASE op = "agent.serviceDeregister"  -> <<"agent", "service", "deregister">>
      [] op = "agent.checkDeregister"    -> <<"agent", "check", "deregister">>
      [] op = "agent.join"               -> <<"agent", "join">>
      [] op = "agent.checkUpdate"        -> <<"agent", "check", "update">>
      [] op = "catalog.service"          -> <<"catalog", "service">>
      [] op = "catalog.connect"          -> <<"catalog", "connect">>
      [] op = "catalog.nodeServices"     -> <<"catalog", "node">>
      [] op = "catalog.gatewayServices"  -> <<"catalog", "gateway-services">>
      [] op = "health.node"              -> <<"health", "node">>
      [] op = "health.checks"            -> <<"health", "checks">>
      [] op = "health.service"           -> <<"health", "service">>
      [] op = "health.connect"           -> <<"health", "connect">>
      [] op = "health.ingress"           -> <<"health", "ingress">>
      [] op = "health.state"             -> <<"health", "state">>
      [] op \in {"kv.get", "kv.keys", "kv.list", "kv.put", "kv.delete"} -> <<"kv">>
      [] op = "session.destroy"          -> <<"session", "destroy">>
      [] op = "session.info"             -> <<"session", "info">>
      [] op = "session.node"             -> <<"session", "node">>
      [] op = "session.renew"            -> <<"session", "renew">>
      [] op = "event.fire"               -> <<"event", "fire">>
      [] op = "coordinate.node"          -> <<"coordinate", "node">>
      [] op \in {"query.update", "query.get", "query.delete", "query.execute"} -> <<"query">>
      [] OTHER                           -> <<>>

FixedPath(op) ==
    CASE op = "agent.self"              -> <<"agent", "self">>
      [] op = "agent.members"           -> <<"agent", "members">>
      [] op = "agent.serviceRegister"   -> <<"agent", "service", "register">>
      [] op = "agent.services"          -> <<"agent", "services">>
      [] op = "agent.checkRegister"     -> <<"agent", "check", "register">>
      [] op = "agent.checks"            -> <<"agent", "checks">>
      [] op = "agent.leave"             -> <<"agent", "leave">>
      [] op = "agent.reload"            -> <<"agent", "reload">>
      [] op = "agent.metrics"           -> <<"agent", "metrics">>
      [] op = "agent.connect"           -> <<"agent", "connect">>
      [] op = "catalog.register"        -> <<"catalog", "register">>
      [] op = "catalog.deregister"      -> <<"catalog", "deregister">>
      [] op = "catalog.datacenters"     -> <<"catalog", "datacenters">>
      [] op = "catalog.nodes"           -> <<"catalog", "nodes">>
      [] op = "catalog.services"        -> <<"catalog", "services">>
      [] op = "session.create"          -> <<"session", "create">>
      [] op = "session.list"            -> <<"session", "list">>
      [] op = "event.list"              -> <<"event", "list">>
      [] op = "status.leader"           -> <<"status", "leader">>
      [] op = "status.peers"            -> <<"status", "peers">>
      [] op = "coordinate.nodes"        -> <<"coordinate", "nodes">>
      [] op = "coordinate.datacenters"  -> <<"coordinate", "datacenters">>
      [] op \in {"query.create", "query.list"} -> <<"query">>
      [] op = "txn.create"              -> <<"txn">>
      [] op \in {"snapshot.save", "snapshot.restore"} -> <<"snapshot">>
      [] OTHER                          -> <<>>

HasSegment(op) == SegmentPrefix(op) # <<>>

\* the text "/s1/s2/.../sn" of the path segments s1 .. sn
RECURSIVE Slashed(_)
Slashed(segments) ==
    IF segments = <<>> THEN <<>>
    ELSE <<"/", Head(segments)>> \o Slashed(Tail(segments))

\* the `url` constant of each method
Path(op, arg) ==
    IF ~HasSegment(op) THEN Slashed(FixedPath(op))
    ELSE IF op = "query.execute"
    THEN Slashed(SegmentPrefix(op)) \o <<"/">> \o arg \o <<"/", "execute">>
    ELSE Slashed(SegmentPrefix(op)) \o <<"/">> \o arg

(***************************************************************************)
(* Query-parameter preparation.  Option keys are texts (atom sequences),   *)
(* so that a key built from a template is the text the template yields.    *)
(***************************************************************************)
K(name) == <<name>>

\* params[`node-meta=${key}`] = value, for each entry of options.nodeMeta
RECURSIVE ExpandNodeMeta(_, _)
ExpandNodeMeta(params, meta) ==
    IF meta = <<>> THEN params
    ELSE ExpandNodeMeta(
            Put(params, <<"node-meta", "=", Head(meta).k>>, Str(Head(meta).v)),
            Tail(meta))

\* ApplyConsistency with the two flags exchanged
ApplyConsistency_Swapped(params, options) ==
    LET c == Get(options, K("consistency"))
    IN  IF ~Truthy(c) THEN params
        ELSE LET flagged ==
                    IF c = Str("consistent") THEN Put(params, K("stale"), True)
                    ELSE IF c = Str("stale") THEN Put(params, K("consistent"), True)
                    ELSE params
             IN  Put(flagged, K("consistency"), Undefined)

ApplyConsistency(params, options) ==
    LET c == Get(options, K("consistency"))
    IN  IF ~Truthy(c) THEN params
        ELSE LET flagged ==
                    IF c = Str("consistent") THEN Put(params, K("consistent"), True)
                    ELSE IF c = Str("stale") THEN Put(params, K("stale"), True)
                    ELSE params
             IN  Put(flagged, K("consistency"), Undefined)

ApplyNodeMeta(params, options) ==
    LET nm == Get(options, K("nodeMeta"))
    IN  IF Truthy(nm) /\ nm.t = "map"
        THEN Put(ExpandNodeMeta(params, nm.m), K("nodeMeta"), Undefined)
        ELSE params

\* `if (options.x) params.x = options.x` re-assigns the copied entry
Reassign(params, options, name) ==
    IF Truthy(Get(options, K(name)))
    THEN Put(params, K(name), Get(options, K(name)))
    ELSE params

\* CatalogClient._prepareBlockingParams
PrepareBlockingParams(options) ==
    IF ~options.given THEN Given(<<>>)
    ELSE LET p0 == Spread(<<>>, options.e)
             p1 == Reassign(p0, options.e, "index")
             p2 == Reassign(p1, options.e, "wait")
             p3 == ApplyConsistency(p2, options.e)
         IN  Given(ApplyNodeMeta(p3, options.e))

\* ApplyPassing as `params.passing = options.passing ? true : undefined`
ApplyPassing_TruthyOnly(params, options) ==
    IF Truthy(Get(options, K("passing")))
    THEN Put(params, K("passing"), True)
    ELSE Put(params, K("passing"), Undefined)

ApplyPassing(params, options) ==
    IF Truthy(Get(options, K("passing")))
    THEN Put(params, K("passing"), True)
    ELSE params

ApplyMergeCentralConfig(params, options) ==
    IF Truthy(Get(options, K("mergeCentralConfig")))
    THEN Put(Put(params, K("merge-central-config"), True),
             K("mergeCentralConfig"), Undefined)
    ELSE params

\* HealthClient._prepareParams
PrepareParams(options) ==
    IF ~options.given THEN Given(<<>>)
    ELSE LET p0 == Spread(<<>>, options.e)
             p1 == Reassign(p0, options.e, "index")
             p2 == Reassign(p1, options.e, "wait")
             p3 == ApplyConsistency(p2, options.e)
             p4 == ApplyNodeMeta(p3, options.e)
             p5 == ApplyPassing(p4, options.e)
         IN  Given(ApplyMergeCentralConfig(p5, options.e))

\* { ...options }
SpreadParams(options) == Given(Spread(<<>>, options.e))

\* KeysParams as { keys: true, ...options }
KeysParams_OptionsWin(options) == Given(Spread(<<Entry(K("keys"), True)>>, options.e))

\* KVClient.keys: { ...options, keys: true }
KeysParams(options) == Given(Put(Spread(<<>>, options.e), K("keys"), True))

\* KVClient.list: { ...options, recurse: true }
ListParams(options) == Given(Put(Spread(<<>>, options.e), K("recurse"), True))

\* EventClient.fire: { ...options } with node, service and tag re-assigned
FireParams(options) ==
    LET p0 == Spread(<<>>, options.e)
        p1 == Reassign(p0, options.e, "node")
        p2 == Reassign(p1, options.e, "service")
    IN  Given(Reassign(p2, options.e, "tag"))

\* the `params` each method hands to the transport
Params(op, options) ==
    CASE op \in CatalogReads -> PrepareBlockingParams(options)
      [] op \in HealthReads  -> PrepareParams(options)
      [] op = "kv.keys"      -> KeysParams(options)
      [] op = "kv.list"      -> ListParams(options)
      [] op = "event.fire"   -> FireParams(options)
      [] op \in SpreadReads  -> SpreadParams(options)
      [] OTHER               -> options

\* the body each method hands to put/post; get and delete pass none
CheckUpdateBody(state, options) ==
    Map(<<Entry("Status", state), Entry("Output", Get(options.e, K("note")))>>)

BodyOf(op, body, options) ==
    CASE op \in {"agent.serviceDeregister", "agent.checkDeregister", "agent.join",
                 "agent.leave", "agent.reload", "session.destroy", "session.renew"}
                                  -> Null
      [] op = "agent.checkUpdate" -> CheckUpdateBody(body, options)
      [] Method(op) \in {"GET", "DELETE"} -> Undefined
      [] OTHER                    -> body

HeadersOf(op) ==
    IF op = "snapshot.restore"
    THEN <<Entry("Content-Type", Str("application/octet-stream"))>>
    ELSE <<>>

ResponseTypeOf(op) == IF op = "snapshot.save" THEN "arraybuffer" ELSE "json"

RequestOptions(op, body, options) ==
    ReqOptions(Params(op, options), BodyOf(op, body, options), HeadersOf(op),
               ResponseTypeOf(op))

(***************************************************************************)
(* What each method makes of the transport's result.                       *)
(***************************************************************************)
IsEmptyResult(resp) == ~Truthy(resp) \/ (IsArray(resp) /\ Len(resp.items) = 0)

\* Array.isArray(response) ? response[0] : response
FirstOrSelf(resp) == IF IsArray(resp) THEN Obj(resp.items[1]) ELSE resp

\* Collapse that leaves a list of two or more elements as it is
Collapse_SingleOnly(resp) ==
    IF IsEmptyResult(resp) THEN Null
    ELSE IF IsArray(resp) /\ Len(resp.items) > 1 THEN resp
    ELSE FirstOrSelf(resp)

\* session.info, session.renew, coordinate.node, query.get
Collapse(resp) == IF IsEmptyResult(resp) THEN Null ELSE FirstOrSelf(resp)

\* KVGetResult without the collapse of a list
KVGetResult_NeverCollapses(resp, options) ==
    IF IsEmptyResult(resp) THEN Null ELSE resp

\* KVGetResult with the raw test made before the emptiness test
KVGetResult_RawFirst(resp, options) ==
    IF Truthy(Get(options.e, K("raw"))) THEN resp
    ELSE IF IsEmptyResult(resp) THEN Null
    ELSE FirstOrSelf(resp)

\* KVClient.get
KVGetResult(resp, options) ==
    IF IsEmptyResult(resp) THEN Null
    ELSE IF Truthy(Get(options.e, K("raw"))) THEN resp
    ELSE FirstOrSelf(resp)

\* KVClient.keys, KVClient.list
ListOrEmpty(resp) == IF ~Truthy(resp) THEN List(<<>>) ELSE resp

\* SessionId returning the whole decoded entry
SessionId_WholeEntry(resp) ==
    IF resp.t \in {"null", "undefined"} THEN Thrown(TypeError("ID of null"))
    ELSE Returned(resp)

\* (response as SessionEntry).ID
SessionId(resp) ==
    IF resp.t \in {"null", "undefined"} THEN Thrown(TypeError("ID of null"))
    ELSE IF resp.t = "obj" /\ resp.items[1].ID # "" THEN Returned(Str(resp.items[1].ID))
    ELSE Returned(Undefined)

\* OnSuccess with a transaction's error list turned into an exception
OnSuccess_TxnErrorsRaise(op, resp, options) ==
    CASE op \in WriteOps       -> Returned(True)
      [] op \in SingularOps    -> Returned(Collapse(resp))
      [] op = "kv.get"         -> Returned(KVGetResult(resp, options))
      [] op \in KVListOps      -> Returned(ListOrEmpty(resp))
      [] op = "session.create" -> SessionId(resp)
      [] op = "txn.create" /\ resp.m # <<>> -> Thrown(TypeError("transaction failed"))
      [] OTHER                 -> Returned(resp)

OnSuccess(op, resp, options) ==
    CASE op \in WriteOps       -> Returned(True)
      [] op \in SingularOps    -> Returned(Collapse(resp))
      [] op = "kv.get"         -> Returned(KVGetResult(resp, options))
      [] op \in KVListOps      -> Returned(ListOrEmpty(resp))
      [] op = "session.create" -> SessionId(resp)
      [] OTHER                 -> Returned(resp)

\* OnError without the catch block of the write methods
OnError_WritesRethrow(op, err) ==
    CASE op \in SingularOps -> Returned(Null)
      [] op = "kv.get"      -> Returned(Null)
      [] op \in KVListOps   -> Returned(List(<<>>))
      [] OTHER              -> Thrown(err)

\* OnError without the catch block of KVClient.get
OnError_KVGetRethrows(op, err) ==
    CASE op \in WriteOps    -> Returned(False)
      [] op \in SingularOps -> Returned(Null)
      [] op \in KVListOps   -> Returned(List(<<>>))
      [] OTHER              -> Thrown(err)

\* OnError with a catch block in every method that has none
OnError_ReadsSwallow(op, err) ==
    CASE op \in WriteOps    -> Returned(False)
      [] op \in SingularOps -> Returned(Null)
      [] op = "kv.get"      -> Returned(Null)
      [] op \in KVListOps   -> Returned(List(<<>>))
      [] OTHER              -> Returned(Null)

\* the catch block of each method, or none
OnError(op, err) ==
    CASE op \in WriteOps    -> Returned(False)
      [] op \in SingularOps -> Returned(Null)
      [] op = "kv.get"      -> Returned(Null)
      [] op \in KVListOps   -> Returned(List(<<>>))
      [] OTHER              -> Thrown(err)

\* console.error(error) in the catch block
LogsError(op) == op \in WriteOps \cup SingularOps

Settle(op, result, options) ==
    IF result.kind = "throw" THEN OnError(op, result.err)
    ELSE OnSuccess(op, result.v, options)

SettleLogs(op, result) ==
    IF result.kind = "throw" /\ LogsError(op) THEN <<result.err>> ELSE <<>>

(***************************************************************************)
(* The callers' inputs.                                                    *)
(***************************************************************************)
ConsistencyModes == {"default", "consistent", "stale"}

\* a caller's nodeMeta mappings: runs of at most MaxMeta entries of the pool
MetaPool == <<Entry("env", "prod"), Entry("a", "1"), Entry("b", "2"), Entry("c", "3")>>

NodeMetas ==
    {SubSeq(MetaPool, i, j) :
        i \in 1..Len(MetaPool),
        j \in 0..Len(MetaPool)} \cap
    {m \in UNION {[1..n -> {MetaPool[x] : x \in 1..Len(MetaPool)}] : n \in 0..MaxMeta} : TRUE}

FieldValues(name) ==
    CASE name = "consistency" -> {Str(c) : c \in ConsistencyModes}
      [] name = "nodeMeta"    -> {Map(m) : m \in NodeMetas}
      [] name = "index"       -> {Num("0"), Num("5")}
      [] name \in {"passing", "mergeCentralConfig", "raw", "keys", "recurse"}
                              -> {True, False}
      [] name = "wait"        -> {Str("10s")}
      [] name = "note"        -> {Str("ok")}
      [] OTHER                -> {Str(name \o "1")}

BaseFields     == <<"dc">>
BlockingFields == BaseFields \o <<"index", "wait", "consistency">>

\* the option fields each method's signature declares (kv.keys and kv.list
\* are also tried with the key they set themselves)
FieldsOf(op) ==
    CASE op \in {"catalog.nodes", "catalog.services", "catalog.service", "catalog.connect"}
                                      -> BlockingFields \o <<"nodeMeta">>
      [] op \in {"catalog.nodeServices", "catalog.gatewayServices"} -> BlockingFields
      [] op \in HealthServiceReads    -> BlockingFields \o <<"nodeMeta", "tag", "passing",
                                                             "mergeCentralConfig">>
      [] op \in HealthReads \ HealthServiceReads -> BlockingFields \o <<"nodeMeta">>
      [] op = "kv.get"                -> BlockingFields \o <<"raw">>
      [] op = "kv.keys"               -> BlockingFields \o <<"keys">>
      [] op = "kv.list"               -> BlockingFields \o <<"recurse">>
      [] op = "kv.delete"             -> BaseFields \o <<"recurse">>
      [] op \in SpreadReads           -> BlockingFields
      [] op = "event.fire"            -> BaseFields \o <<"node">>
      [] op = "agent.checkUpdate"     -> BaseFields \o <<"note">>
      [] OTHER                        -> BaseFields

\* the bags that set at most `budget` of the fields, in declaration order
RECURSIVE BagsFrom(_, _)
BagsFrom(fields, budget) ==
    IF fields = <<>> \/ budget = 0 THEN {<<>>}
    ELSE BagsFrom(Tail(fields), budget)
           \cup {<<Entry(K(Head(fields)), v)>> \o b :
                    v \in FieldValues(Head(fields)),
                    b \in BagsFrom(Tail(fields), budget - 1)}

OptionArgs(op) == {Absent} \cup {Given(b) : b \in BagsFrom(FieldsOf(op), MaxOpts)}

\* path segments: a key, an id, a name
Segments == {<<"k">>}

\* the operations of a transaction: KV operations on the key "k"
TxnOps ==
    UNION {[1..n -> {[ID |-> "", Key |-> "k", Value |-> v] : v \in {"set", "get"}}] :
              n \in 0..MaxListLen}

\* the body argument of the methods that take one
BodyArgs(op) ==
    CASE op = "kv.put"            -> {Str("v"), Str(""), Buffer("bytes")}
      [] op = "event.fire"        -> {Undefined, Str("p"), Buffer("bytes")}
      [] op = "snapshot.restore"  -> {ArrayBuf("snap"), Buffer("snap")}
      [] op = "agent.checkUpdate" -> {Str("passing"), Str("critical")}
      [] op = "txn.create"        -> {List(xs) : xs \in TxnOps}
      [] op \in PutOps \cup {"query.create"} -> {Obj([ID |-> "", Key |-> "def", Value |-> ""])}
      [] OTHER                    -> {Undefined}

\* the client configurations tried: none given, the end-to-end one of the
\* documentation, and one whose host no URL can hold
NoConfig ==
    [host |-> <<>>, port |-> "", secure |-> FALSE, token |-> "", headers |-> <<>>,
     dc |-> "", namespace |-> "", partition |-> ""]

EndToEndConfig == [NoConfig EXCEPT !.host = <<"x">>, !.port = "9999", !.token = "T"]

Configs ==
    {NoConfig,
     EndToEndConfig,
     [NoConfig EXCEPT !.host = <<"bad", " ", "host">>]}

\* the values each configuration field is tried with; the first is the
\* field left out
ConfigChoices ==
    [host      : {<<>>, <<"x">>},
     port      : {"", "9999", "80", "443"},
     secure    : BOOLEAN,
     token     : {"", "T"},
     headers   : {<<>>,
                  <<Entry("X-Extra", Str("e"))>>,
                  <<Entry("X-Consul-Token", Str("H")), Entry("X-Extra", Str("e")),
                    Entry("Content-Type", Str("text/plain"))>>},
     dc        : {"", "dc1"},
     namespace : {"", "ns1"},
     partition : {"", "p1"}]

ConfigFields ==
    {"host", "port", "secure", "token", "headers", "dc", "namespace", "partition"}

\* the configurations that set at most MaxConfig fields
WideConfigs ==
    {c \in ConfigChoices :
        Cardinality({f \in ConfigFields : c[f] # NoConfig[f]}) <= MaxConfig}

\* path segments that climb out of their directory
WideSegments == Segments \cup {<<"..", "/", "..", "/", "x">>}

\* what a caller not held to the declared types can put in an options
\* mapping: any value under any key, in any order
ParamKeys == {"a", "b", "c"}

ElementPool == <<"x", "y", "z", "w">>

ParamValues ==
    {Undefined, Null, Str("s"), Num("7"), False}
      \cup {List(SubSeq(ElementPool, 1, n)) : n \in 0..MaxListLen}

UntypedBags ==
    {b \in UNION {[1..n -> [k : {K(k) : k \in ParamKeys}, v : ParamValues]] :
                     n \in 1..MaxParams} :
        \A i, j \in 1..Len(b) : b[i].k = b[j].k => i = j}

(***************************************************************************)
(* What the network-call function can do: fail, or resolve with a          *)
(* response.                                                               *)
(***************************************************************************)
NetworkErrors ==
    {[type |-> "NetworkError", status |-> 0, statusText |-> "", text |-> "ECONNREFUSED"],
     [type |-> "NetworkError", status |-> 0, statusText |-> "", text |-> "ETIMEDOUT"]}

Objects ==
    {[ID |-> "s1", Key |-> "k", Value |-> "djE="],
     [ID |-> "", Key |-> "k2", Value |-> "djI="]}

Lists == UNION {[1..n -> Objects] : n \in 0..MaxListLen}

\* what the transaction endpoint answers: the results of the operations that
\* ran and one error per operation that failed
TxnErrors == {[i \in 1..n |-> Entry(ToString(i - 1), "failed")] : n \in 0..MaxListLen}

TxnResponses ==
    {TxnResponse(results, errors) :
        results \in {<<>>, <<[ID |-> "", Key |-> "k", Value |-> "djE="]>>},
        errors \in TxnErrors}

JsonValues ==
    {Null, Str(""), Str("txt"), Num("0"), Num("7"), True, False}
      \cup {Obj(o) : o \in Objects}
      \cup {List(xs) : xs \in Lists}
      \cup TxnResponses

Resp(status, statusText, cl0, text, parses, json, singleUse, readFails) ==
    [status |-> status, statusText |-> statusText, contentLength0 |-> cl0,
     text |-> text, parses |-> parses, json |-> json,
     singleUse |-> singleUse, readFails |-> readFails]

OkResponses ==
    {Resp(200, "OK", FALSE, "json", TRUE, v, TRUE, FALSE) : v \in JsonValues}
      \cup {Resp(200, "OK", FALSE, text, FALSE, Null, su, FALSE) :
                text \in {"", "not json"}, su \in BOOLEAN}
      \cup {Resp(st, "OK", TRUE, "", FALSE, Null, TRUE, FALSE) : st \in {200, 204}}
      \cup {Resp(200, "OK", TRUE, "json", TRUE, Obj(o), TRUE, FALSE) : o \in Objects}
      \cup {Resp(204, "No Content", FALSE, "", FALSE, Null, su, FALSE) : su \in BOOLEAN}
      \cup {Resp(200, "OK", FALSE, "json", TRUE, Null, TRUE, TRUE)}
      \cup {Resp(200, "OK", TRUE, "", FALSE, Null, TRUE, TRUE)}

ErrorResponses ==
    {Resp(st, "Error", FALSE, "rpc error", FALSE, Null, TRUE, rf) :
        st \in {404, 500}, rf \in BOOLEAN}
      \cup {Resp(300, "Multiple Choices", FALSE, "json", TRUE,
                 Obj([ID |-> "s1", Key |-> "k", Value |-> "djE="]), TRUE, FALSE)}

Responses == OkResponses \cup ErrorResponses

NoResponse == Resp(0, "", FALSE, "", FALSE, Null, FALSE, FALSE)
NoCall == [op |-> "", arg |-> <<>>, body |-> Undefined, options |-> Absent]

(***************************************************************************)
(* The state machine.                                                      *)
(***************************************************************************)
Init ==
    /\ \E options \in Configs :
          /\ baseUrl = ConstructBaseUrl(options)
          /\ defaultHeaders = ConstructHeaders(options)
    /\ pc = "idle"
    /\ call = NoCall
    /\ requests = <<>>
    /\ response = NoResponse
    /\ outcome = Pending
    /\ logs = <<>>

\* The caller invokes an endpoint method, which runs up to `await _fetchFn`
\* or, when the request cannot be built, to its end.
Invoke(op, arg, body, options) ==
    LET prepared == PrepareRequest(baseUrl, defaultHeaders, Method(op), Path(op, arg),
                                   RequestOptions(op, body, options))
        failed   == Thrown(prepared.err)
    IN  /\ pc = "idle"
        /\ call' = [op |-> op, arg |-> arg, body |-> body, options |-> options]
        /\ response' = NoResponse
        /\ IF prepared.ok
           THEN /\ requests' = <<prepared.req>>
                /\ pc' = "awaiting"
                /\ outcome' = Pending
                /\ logs' = <<>>
           ELSE /\ requests' = <<>>
                /\ pc' = "done"
                /\ outcome' = Settle(op, failed, options)
                /\ logs' = SettleLogs(op, failed)
        /\ UNCHANGED <<baseUrl, defaultHeaders>>

\* FetchRejects with the request issued again after a network failure
FetchRejects_Retries(err) ==
    /\ pc = "awaiting"
    /\ Len(requests) < 3
    /\ pc' = "awaiting"
    /\ requests' = Append(requests, requests[1])
    /\ UNCHANGED <<baseUrl, defaultHeaders, call, response, outcome, logs>>

\* _fetchFn rejects: the method's catch block, or the caller, gets the error.
FetchRejects(err) ==
    /\ pc = "awaiting"
    /\ pc' = "done"
    /\ outcome' = Settle(call.op, Thrown(err), call.options)
    /\ logs' = SettleLogs(call.op, Thrown(err))
    /\ UNCHANGED <<baseUrl, defaultHeaders, call, requests, response>>

\* _fetchFn resolves: the transport decodes, the method reshapes.
FetchResolves(resp) ==
    LET decoded == Decode(resp, ResponseTypeOf(call.op))
    IN  /\ pc = "awaiting"
        /\ pc' = "done"
        /\ response' = resp
        /\ outcome' = Settle(call.op, decoded, call.options)
        /\ logs' = SettleLogs(call.op, decoded)
        /\ UNCHANGED <<baseUrl, defaultHeaders, call, requests>>

\* The caller has its result and is free to make the next call.
Return ==
    /\ pc = "done"
    /\ pc' = "idle"
    /\ call' = NoCall
    /\ requests' = <<>>
    /\ response' = NoResponse
    /\ outcome' = Pending
    /\ logs' = <<>>
    /\ UNCHANGED <<baseUrl, defaultHeaders>>

\* The caller invokes some endpoint method with some arguments.
Call ==
    /\ pc = "idle"
    /\ \E op \in Ops :
         \E arg \in (IF HasSegment(op) THEN Segments ELSE {<<>>}) :
           \E body \in BodyArgs(op) :
             \E options \in OptionArgs(op) :
               Invoke(op, arg, body, options)

\* The network-call function settles the pending request.
Fetch ==
    /\ pc = "awaiting"
    /\ \/ \E err \in NetworkErrors : FetchRejects(err)
       \/ \E resp \in Responses : FetchResolves(resp)

Next ==
    \/ Call
    \/ Fetch
    \/ Return

Spec == Init /\ [][Next]_vars

(***************************************************************************)
(* The same machine over more client configurations and path arguments,    *)
(* the calls being made without an options argument.                       *)
(***************************************************************************)
ConfigInit ==
    /\ \E options \in WideConfigs :
          /\ baseUrl = ConstructBaseUrl(options)
          /\ defaultHeaders = ConstructHeaders(options)
    /\ pc = "idle"
    /\ call = NoCall
    /\ requests = <<>>
    /\ response = NoResponse
    /\ outcome = Pending
    /\ logs = <<>>

PlainCall ==
    /\ pc = "idle"
    /\ \E op \in Ops :
         \E arg \in (IF HasSegment(op) THEN WideSegments ELSE {<<>>}) :
           \E body \in BodyArgs(op) :
             Invoke(op, arg, body, Absent)

ConfigNext ==
    \/ PlainCall
    \/ Fetch
    \/ Return

ConfigSpec == ConfigInit /\ [][ConfigNext]_vars

(***************************************************************************)
(* The same machine with a default client whose caller passes untyped      *)
(* option mappings: agent.self hands its options to buildUrl as they are.  *)
(***************************************************************************)
UntypedInit ==
    /\ baseUrl = ConstructBaseUrl(NoConfig)
    /\ defaultHeaders = ConstructHeaders(NoConfig)
    /\ pc = "idle"
    /\ call = NoCall
    /\ requests = <<>>
    /\ response = NoResponse
    /\ outcome = Pending
    /\ logs = <<>>

UntypedCall ==
    /\ pc = "idle"
    /\ \E e \in UntypedBags : Invoke("agent.self", <<>>, Undefined, Given(e))

UntypedNext ==
    \/ UntypedCall
    \/ Fetch
    \/ Return

UntypedSpec == UntypedInit /\ [][UntypedNext]_vars

(***************************************************************************)
(* Several calls in flight on one client.  Every call of an async method   *)
(* has its own locals (url, requestHeaders, requestInit, response); what   *)
(* the calls share is the HttpClient's fields and the objects the caller   *)
(* passed by reference.  Here pc, requests, response, outcome and logs     *)
(* hold one value per call slot; call[i] holds the arguments of the call   *)
(* in slot i as given and, under `held`, what the caller's objects hold    *)
(* now; call[0] is the construction `new ConsulClient(options)`.           *)
(***************************************************************************)
Slots == 1..MaxCalls

\* OptionsAfter were params the options object itself
OptionsAfter_Aliased(op, options) ==
    IF options.given THEN Params(op, options) ELSE options

\* const params = { ...options }: the methods write to the copy, buildUrl
\* only reads its params
OptionsAfter(op, options) == options

\* const requestHeaders = { ...this._defaultHeaders, ...headers }: the
\* content type is written to the new object
HeadersAfter(defaults, headers, body) == headers

\* DefaultsAfter were the headers merged into this._defaultHeaders
DefaultsAfter_Aliased(defaults, headers, body) == RequestHeaders(defaults, headers, body)

\* this._defaultHeaders after request() has prepared its headers
DefaultsAfter(defaults, headers, body) == defaults

\* const headers = { ...(options.headers || {}) }: the token is written to
\* the copy
ConfigHeadersAfter(options) == options.headers

\* the calls made concurrently: one per way a method writes to its
\* parameters or the transport to its headers
ConcurrentCalls ==
    {[op |-> c.op, arg |-> IF HasSegment(c.op) THEN <<"k">> ELSE <<>>,
      body |-> c.body, options |-> c.options] :
        c \in {[op |-> "health.service", body |-> Undefined,
                options |-> Given(<<Entry(K("consistency"), Str("stale")),
                                    Entry(K("nodeMeta"), Map(<<Entry("env", "prod")>>)),
                                    Entry(K("passing"), True),
                                    Entry(K("mergeCentralConfig"), True)>>)],
               [op |-> "catalog.nodes", body |-> Undefined,
                options |-> Given(<<Entry(K("index"), Num("5")),
                                    Entry(K("wait"), Str("10s")),
                                    Entry(K("consistency"), Str("consistent")),
                                    Entry(K("nodeMeta"), Map(<<Entry("a", "1")>>))>>)],
               [op |-> "kv.keys", body |-> Undefined,
                options |-> Given(<<Entry(K("dc"), Str("dc1"))>>)],
               [op |-> "kv.put", body |-> Str("v"), options |-> Absent],
               [op |-> "snapshot.restore", body |-> ArrayBuf("snap"), options |-> Absent],
               [op |-> "agent.self", body |-> Undefined, options |-> Absent],
               [op |-> "event.fire", body |-> Str("p"),
                options |-> Given(<<Entry(K("node"), Str("node1"))>>)],
               [op |-> "agent.checkUpdate", body |-> Str("passing"),
                options |-> Given(<<Entry(K("note"), Str("ok"))>>)]}}

\* the configurations of the shared client: explicit headers with a token
\* that overrides one of them, the documentation's, and an unusable host
ConcurrentConfigs ==
    {[EndToEndConfig EXCEPT
         !.headers = <<Entry("X-Consul-Token", Str("H")), Entry("X-Extra", Str("e"))>>],
     EndToEndConfig,
     [NoConfig EXCEPT !.host = <<"bad", " ", "host">>]}

ConcurrentErrors == {e \in NetworkErrors : e.text = "ECONNREFUSED"}

ConcurrentResponses ==
    {Resp(200, "OK", FALSE, "json", TRUE, Obj([ID |-> "s1", Key |-> "k", Value |-> "djE="]),
          TRUE, FALSE),
     Resp(500, "Error", FALSE, "rpc error", FALSE, Null, TRUE, FALSE)}

NothingHeld == [options |-> Absent, headers |-> <<>>]

Construction(options) ==
    [op |-> "constructor", arg |-> <<>>, body |-> Undefined, options |-> options,
     held |-> [options |-> Absent, headers |-> ConfigHeadersAfter(options)]]

NoConcurrentCall ==
    [op |-> "", arg |-> <<>>, body |-> Undefined, options |-> Absent, held |-> NothingHeld]

ConcurrentInit ==
    /\ \E options \in ConcurrentConfigs :
          /\ baseUrl = ConstructBaseUrl(options)
          /\ defaultHeaders = ConstructHeaders(options)
          /\ call = [i \in {0} \cup Slots |->
                        IF i = 0 THEN Construction(options) ELSE NoConcurrentCall]
    /\ pc = [i \in Slots |-> "idle"]
    /\ requests = [i \in Slots |-> <<>>]
    /\ response = [i \in Slots |-> NoResponse]
    /\ outcome = [i \in Slots |-> Pending]
    /\ logs = [i \in Slots |-> <<>>]

\* The caller invokes a method while other calls may be awaiting: the
\* method runs up to `await _fetchFn` or, when the request cannot be built,
\* to its end.
ConcurrentInvoke(i, op, arg, body, options) ==
    LET ro       == RequestOptions(op, body, options)
        prepared == PrepareRequest(baseUrl, defaultHeaders, Method(op), Path(op, arg), ro)
        failed   == Thrown(prepared.err)
    IN  /\ pc[i] = "idle"
        /\ call' = [call EXCEPT ![i] =
                       [op |-> op, arg |-> arg, body |-> body, options |-> options,
                        held |-> [options |-> OptionsAfter(op, options),
                                  headers |-> HeadersAfter(defaultHeaders, ro.headers,
                                                           ro.body)]]]
        /\ defaultHeaders' = DefaultsAfter(defaultHeaders, ro.headers, ro.body)
        /\ response' = [response EXCEPT ![i] = NoResponse]
        /\ IF prepared.ok
           THEN /\ requests' = [requests EXCEPT ![i] = <<prepared.req>>]
                /\ pc' = [pc EXCEPT ![i] = "awaiting"]
                /\ outcome' = [outcome EXCEPT ![i] = Pending]
                /\ logs' = [logs EXCEPT ![i] = <<>>]
           ELSE /\ requests' = [requests EXCEPT ![i] = <<>>]
                /\ pc' = [pc EXCEPT ![i] = "done"]
                /\ outcome' = [outcome EXCEPT ![i] = Settle(op, failed, options)]
                /\ logs' = [logs EXCEPT ![i] = SettleLogs(op, failed)]
        /\ UNCHANGED baseUrl

\* _fetchFn rejects the request of the call in slot i
ConcurrentFetchRejects(i, err) ==
    /\ pc[i] = "awaiting"
    /\ pc' = [pc EXCEPT ![i] = "done"]
    /\ outcome' = [outcome EXCEPT ![i] = Settle(call[i].op, Thrown(err), call[i].options)]
    /\ logs' = [logs EXCEPT ![i] = SettleLogs(call[i].op, Thrown(err))]
    /\ UNCHANGED <<baseUrl, defaultHeaders, call, requests, response>>

\* _fetchFn resolves the request of the call in slot i
ConcurrentFetchResolves(i, resp) ==
    LET decoded == Decode(resp, ResponseTypeOf(call[i].op))
    IN  /\ pc[i] = "awaiting"
        /\ pc' = [pc EXCEPT ![i] = "done"]
        /\ response' = [response EXCEPT ![i] = resp]
        /\ outcome' = [outcome EXCEPT ![i] = Settle(call[i].op, decoded, call[i].options)]
        /\ logs' = [logs EXCEPT ![i] = SettleLogs(call[i].op, decoded)]
        /\ UNCHANGED <<baseUrl, defaultHeaders, call, requests>>

\* The caller has the result of the call in slot i.
ConcurrentReturn ==
    \E i \in Slots :
        /\ pc[i] = "done"
        /\ pc' = [pc EXCEPT ![i] = "idle"]
        /\ call' = [call EXCEPT ![i] = NoConcurrentCall]
        /\ requests' = [requests EXCEPT ![i] = <<>>]
        /\ response' = [response EXCEPT ![i] = NoResponse]
        /\ outcome' = [outcome EXCEPT ![i] = Pending]
        /\ logs' = [logs EXCEPT ![i] = <<>>]
        /\ UNCHANGED <<baseUrl, defaultHeaders>>

ConcurrentCall ==
    \E i \in Slots :
        /\ pc[i] = "idle"
        /\ \E c \in ConcurrentCalls : ConcurrentInvoke(i, c.op, c.arg, c.body, c.options)

ConcurrentFetch ==
    \E i \in Slots :
        /\ pc[i] = "awaiting"
        /\ \/ \E err \in ConcurrentErrors : ConcurrentFetchRejects(i, err)
           \/ \E resp \in ConcurrentResponses : ConcurrentFetchResolves(i, resp)

ConcurrentNext ==
    \/ ConcurrentCall
    \/ ConcurrentFetch
    \/ ConcurrentReturn

ConcurrentSpec == ConcurrentInit /\ [][ConcurrentNext]_vars

(***************************************************************************)
(* Reading a request as its receiver does.                                 *)
(***************************************************************************)
\* the name=value pieces of a URL's query string, as sent
WirePieces(url) ==
    IF ~Contains(url, "?") THEN <<>>
    ELSE SplitAt(SubSeq(url, First(url, "?") + 1, Len(url)), "&")

\* the name of a piece: the text before its first "="
WireName(piece) ==
    IF Contains(piece, "=") THEN SubSeq(piece, 1, First(piece, "=") - 1) ELSE piece

\* the pieces of the current call's request
SentPieces == IF requests = <<>> THEN <<>> ELSE WirePieces(requests[1].url)

SentNames == LET ps == SentPieces IN {WireName(ps[i]) : i \in 1..Len(ps)}

\* how many pieces of the request read exactly `piece`
CountPiece(piece) ==
    LET ps == SentPieces IN Cardinality({i \in 1..Len(ps) : ps[i] = piece})

\* how many pieces of the request carry the name `name`
CountName(name) ==
    LET ps == SentPieces IN Cardinality({i \in 1..Len(ps) : WireName(ps[i]) = name})

Sent == requests # <<>>
Done == pc = "done"

\* the caller's option of that name, Undefined when not given
Option(name) == Get(call.options.e, K(name))

\* The request failed: none was sent, the network call failed, the status
\* was not 2xx, or the body could not be read as the json shape needs.
Failed ==
    \/ ~Sent
    \/ ~Ok(response)
    \/ /\ ~response.contentLength0
       /\ \/ response.readFails
          \/ ~response.parses /\ response.singleUse

\* what the json shape decodes a successful response to
Data ==
    IF response.contentLength0 THEN Null
    ELSE IF response.parses THEN response.json
    ELSE Str(response.text)

(***************************************************************************)
(* C1: a write-style operation never raises to its caller, and whenever    *)
(* its request fails (no request could be built, the network call failed,  *)
(* or the status is not 2xx) it completes with boolean false.              *)
(***************************************************************************)
C1_WriteFailureYieldsFalse ==
    (Done /\ call.op \in WriteOps) =>
        /\ outcome.kind = "return"
        /\ outcome.v \in {True, False}
        /\ (~Sent \/ ~Ok(response)) => outcome = Returned(False)

\* a write met a 500 whose body could not be read, and returned false
C1_Witness ==
    /\ Done
    /\ call.op = "agent.serviceRegister"
    /\ response.status = 500
    /\ response.readFails
    /\ outcome = Returned(False)

(***************************************************************************)
(* C2: a write-style operation whose single request is answered with a     *)
(* 2xx status returns true, whatever the response body and headers are    *)
(* (the body being one that can be read).                                  *)
(***************************************************************************)
C2_WriteSuccessYieldsTrue ==
    (Done /\ call.op \in WriteOps /\ Sent /\ Ok(response) /\ ~response.readFails)
        => outcome = Returned(True)

(***************************************************************************)
(* C3: no request of an operation that accepts blocking-query options      *)
(* carries a query entry whose key is `consistency`.                       *)
(***************************************************************************)
BlockingOps ==
    CatalogReads \cup HealthReads \cup SpreadReads \cup {"kv.keys", "kv.list"}

C3_ConsistencyNeverForwarded ==
    (Sent /\ call.op \in BlockingOps) => <<"consistency">> \notin SentNames

(***************************************************************************)
(* C4: in catalog and health reads `consistent` yields the one entry       *)
(* consistent=true and no stale entry, `stale` yields the one entry        *)
(* stale=true and no consistent entry, `default` or no option yields       *)
(* neither; the request never has a `consistency` entry.  The request is   *)
(* read while the call awaits the network: it does not change afterwards.  *)
(***************************************************************************)
C4_ConsistencyFlags ==
    (pc = "awaiting" /\ call.op \in CatalogReads \cup HealthReads) =>
        /\ CountName(<<"consistent">>) = (IF Option("consistency") = Str("consistent") THEN 1 ELSE 0)
        /\ CountPiece(<<"consistent", "=", "true">>) = CountName(<<"consistent">>)
        /\ CountName(<<"stale">>) = (IF Option("consistency") = Str("stale") THEN 1 ELSE 0)
        /\ CountPiece(<<"stale", "=", "true">>) = CountName(<<"stale">>)
        /\ <<"consistency">> \notin SentNames

\* a health read asked for stale data and sent stale=true
C4_Witness ==
    /\ Sent
    /\ call.op = "health.checks"
    /\ Option("consistency") = Str("stale")
    /\ CountPiece(<<"stale", "=", "true">>) = 1

(***************************************************************************)
(* C5: a catalog or health read given a node-metadata mapping M sends, for *)
(* each key k of M, exactly one query piece that reads node-meta=k=M[k] on *)
(* the wire, and no piece named nodeMeta.                                  *)
(***************************************************************************)
C5_NodeMetaOnTheWire ==
    (Sent /\ call.op \in CatalogReads \cup HealthReads /\ Option("nodeMeta").t = "map") =>
        /\ \A i \in 1..Len(Option("nodeMeta").m) :
              LET e == Option("nodeMeta").m[i]
              IN  CountPiece(<<"node-meta", "=", e.k, "=", e.v>>) = 1
        /\ <<"nodeMeta">> \notin SentNames

(***************************************************************************)
(* C6: a health-service call never sends a query piece named               *)
(* mergeCentralConfig, whatever value the caller gave that option.         *)
(***************************************************************************)
C6_MergeCentralConfigRenamed ==
    (Sent /\ call.op \in HealthServiceReads) => <<"mergeCentralConfig">> \notin SentNames

(***************************************************************************)
(* C7: kv.get never raises; on a not-found response and on every other     *)
(* request failure it returns null.                                        *)
(***************************************************************************)
C7_KVGetNeverRaises ==
    (Done /\ call.op = "kv.get") =>
        /\ outcome.kind = "return"
        /\ Failed => outcome = Returned(Null)

\* kv.get met a 404 and returned null
C7_Witness ==
    /\ Done
    /\ call.op = "kv.get"
    /\ response.status = 404
    /\ outcome = Returned(Null)

(***************************************************************************)
(* C8: kv.get without the raw option returns the element of a decoded      *)
(* one-element list, with all its fields, and returns a decoded single     *)
(* object unchanged.                                                       *)
(***************************************************************************)
C8_KVGetCollapsesSingleton ==
    (Done /\ call.op = "kv.get" /\ ~Failed /\ ~Truthy(Option("raw"))) =>
        /\ (Data.t = "list" /\ Len(Data.items) = 1) => outcome = Returned(Obj(Data.items[1]))
        /\ Data.t = "obj" => outcome = Returned(Data)

\* kv.get decoded a one-element list and returned its element
C8_Witness ==
    /\ Done
    /\ call.op = "kv.get"
    /\ ~Failed
    /\ ~Truthy(Option("raw"))
    /\ Data.t = "list"
    /\ Len(Data.items) = 1
    /\ outcome = Returned(Obj(Data.items[1]))

(***************************************************************************)
(* C9: kv.keys always sends keys=true and kv.list always sends             *)
(* recurse=true, whatever the caller's options hold; each returns the      *)
(* decoded list on success, an empty list when the response is absent,     *)
(* and an empty list, never an error, when the request fails.              *)
(***************************************************************************)
C9_KeysAndList ==
    /\ (Sent /\ call.op = "kv.keys") =>
          CountName(<<"keys">>) = 1 /\ CountPiece(<<"keys", "=", "true">>) = 1
    /\ (Sent /\ call.op = "kv.list") =>
          CountName(<<"recurse">>) = 1 /\ CountPiece(<<"recurse", "=", "true">>) = 1
    /\ (Done /\ call.op \in KVListOps) =>
          /\ outcome.kind = "return"
          /\ Failed => outcome = Returned(List(<<>>))
          /\ (~Failed /\ Data = Null) => outcome = Returned(List(<<>>))
          /\ (~Failed /\ Data.t = "list") => outcome = Returned(Data)

\* kv.keys, called with keys: false, sent keys=true and returned the two
\* elements the store answered with
C9_Witness ==
    /\ Done
    /\ call.op = "kv.keys"
    /\ Option("keys") = False
    /\ CountPiece(<<"keys", "=", "true">>) = 1
    /\ ~Failed
    /\ Data.t = "list"
    /\ Len(Data.items) = 2
    /\ outcome = Returned(Data)

(***************************************************************************)
(* C10: session.info, session.renew, coordinate.node and query.get never   *)
(* raise: an absent or empty response yields null, an empty list yields    *)
(* null, a one-element list yields its element, any other response is      *)
(* returned unchanged, and any request failure yields null.                *)
(***************************************************************************)
C10_SingularReads ==
    (Done /\ call.op \in SingularOps) =>
        /\ outcome.kind = "return"
        /\ Failed => outcome = Returned(Null)
        /\ ~Failed =>
              IF ~Truthy(Data) \/ (Data.t = "list" /\ Len(Data.items) = 0)
              THEN outcome = Returned(Null)
              ELSE IF Data.t = "list" /\ Len(Data.items) = 1
              THEN outcome = Returned(Obj(Data.items[1]))
              ELSE outcome = Returned(Data)

(***************************************************************************)
(* C10, amended: as above, but every non-empty list yields its first       *)
(* element, so that a list of two or more elements is not returned         *)
(* unchanged; only a response that is neither empty nor a list is.         *)
(***************************************************************************)
C10_SingularReadsFirstElement ==
    (Done /\ call.op \in SingularOps) =>
        /\ outcome.kind = "return"
        /\ Failed => outcome = Returned(Null)
        /\ ~Failed =>
              IF ~Truthy(Data) \/ (Data.t = "list" /\ Len(Data.items) = 0)
              THEN outcome = Returned(Null)
              ELSE IF Data.t = "list"
              THEN outcome = Returned(Obj(Data.items[1]))
              ELSE outcome = Returned(Data)

\* session.info decoded a list of two different entries and returned the first
C10_Witness ==
    /\ Done
    /\ call.op = "session.info"
    /\ ~Failed
    /\ Data.t = "list"
    /\ Len(Data.items) = 2
    /\ Data.items[1] # Data.items[2]
    /\ outcome = Returned(Obj(Data.items[1]))

(***************************************************************************)
(* C11: the propagating operations surface failures: when the network-call *)
(* function fails the caller receives that same error, when the response   *)
(* status is not 2xx the caller receives the transport's HTTP failure, and *)
(* in neither case does the operation return a value.                      *)
(***************************************************************************)
PropagatingOps ==
    CatalogReads \cup {"catalog.datacenters"} \cup HealthReads
      \cup {"event.fire", "event.list", "status.leader", "status.peers", "query.create",
            "query.list", "query.execute", "txn.create", "session.create"}

C11_FailuresPropagate ==
    [][(pc = "awaiting" /\ call.op \in PropagatingOps) =>
          /\ \A err \in NetworkErrors : FetchRejects(err) => outcome' = Thrown(err)
          /\ (pc' = "done" /\ response' # NoResponse /\ ~Ok(response'))
                => outcome' = Thrown(HttpError(response'))
          /\ (pc' = "done" /\ (response' = NoResponse \/ ~Ok(response')))
                => outcome'.kind = "throw"]_vars

\* txn.create met a timed-out network call and raised that error
C11_Witness ==
    /\ Done
    /\ call.op = "txn.create"
    /\ Sent
    /\ response = NoResponse
    /\ outcome.kind = "throw"
    /\ outcome.err.text = "ETIMEDOUT"

(***************************************************************************)
(* C12: txn.create, whatever the number of operations it is given,         *)
(* returns the decoded response as it is, its per-operation error list     *)
(* included: a response that lists failed operations is neither reshaped   *)
(* nor turned into an exception or a boolean.                              *)
(***************************************************************************)
C12_TxnResponseUnmodified ==
    (Done /\ call.op = "txn.create" /\ ~Failed) => outcome = Returned(Data)

\* a transaction of two operations, both reported as failed, returned the
\* response with its two errors
C12_Witness ==
    /\ Done
    /\ call.op = "txn.create"
    /\ Len(call.body.items) = 2
    /\ ~Failed
    /\ Data.t = "txn"
    /\ Len(Data.m) = 2
    /\ outcome = Returned(Data)

(***************************************************************************)
(* C13: session.create returns exactly the ID field of the decoded         *)
(* response object and nothing else of it (undefined when the object has   *)
(* no ID).                                                                 *)
(***************************************************************************)
C13_SessionCreateReturnsId ==
    (Done /\ call.op = "session.create" /\ ~Failed /\ Data.t = "obj") =>
        outcome = Returned(IF Data.items[1].ID # ""
                           THEN Str(Data.items[1].ID)
                           ELSE Undefined)

\* session.create decoded an entry with ID, Key and Value and returned the ID
C13_Witness ==
    /\ Done
    /\ call.op = "session.create"
    /\ ~Failed
    /\ Data = Obj([ID |-> "s1", Key |-> "k", Value |-> "djE="])
    /\ outcome = Returned(Str("s1"))

(***************************************************************************)
(* C14: no operation retries: a call of an endpoint method invokes the     *)
(* network-call function at most once, and exactly once when the request   *)
(* could be built, whether the call ends in success, a non-2xx status, a   *)
(* network failure or a decode failure.                                    *)
(***************************************************************************)
\* the current call's URL and query parameters make a URL
CouldBeBuilt ==
    UrlError(UrlText(baseUrl, Path(call.op, call.arg)),
             Params(call.op, call.options)).type = ""

C14_AtMostOneRequest ==
    /\ Len(requests) <= 1
    /\ pc # "idle" => (Len(requests) = 1 <=> CouldBeBuilt)

\* a call whose 200 response could not be decoded ended after its one request
C14_Witness ==
    /\ Done
    /\ response.status = 200
    /\ ~response.contentLength0
    /\ ~response.parses
    /\ response.singleUse
    /\ outcome.kind = "throw"
    /\ Len(requests) = 1

(***************************************************************************)
(* C15: end to end: on a client constructed with host "x", port 9999 and   *)
(* token "T", kv.put("k", "v") issues exactly one request, with method     *)
(* PUT, URL http://x:9999/v1/kv/k, header X-Consul-Token: T and the body   *)
(* "v" as a string, not JSON-encoded; a 200 response (whose body can be    *)
(* read) yields true.                                                      *)
(***************************************************************************)
EndToEndCall ==
    /\ pc # "idle"
    /\ baseUrl = ConstructBaseUrl(EndToEndConfig)
    /\ defaultHeaders = ConstructHeaders(EndToEndConfig)
    /\ call = [op |-> "kv.put", arg |-> <<"k">>, body |-> Str("v"), options |-> Absent]

EndToEndRequest ==
    /\ Len(requests) = 1
    /\ requests[1].method = "PUT"
    /\ requests[1].url = <<"http", "://", "x", ":", "9999", "/", "v1", "/", "kv", "/", "k">>
    /\ Get(requests[1].headers, "X-Consul-Token") = Str("T")
    /\ requests[1].body = Str("v")

C15_EndToEnd ==
    EndToEndCall =>
        /\ EndToEndRequest
        /\ (Done /\ response.status = 200 /\ ~response.readFails) => outcome = Returned(True)

(***************************************************************************)
(* C16: every request an endpoint group issues has a URL that begins with  *)
(* the client's base URL protocol://host:port/v1 (the port written as the  *)
(* URL serialisation writes it), where host defaults to localhost, port to *)
(* 8500 and protocol to http, https exactly when the transport-security    *)
(* flag is set: no request leaves that base.                               *)
(***************************************************************************)
IsPrefix(a, b) == Len(a) <= Len(b) /\ SubSeq(b, 1, Len(a)) = a

\* the base URL the claim describes for a configuration
ClaimedBase(c) ==
    <<IF c.secure THEN "https" ELSE "http", "://">>
      \o (IF c.host = <<>> THEN <<"localhost">> ELSE c.host)
      \o <<":", IF c.port = "" THEN "8500" ELSE c.port, "/", "v1">>

C16_RequestsStayUnderBase ==
    /\ \A c \in WideConfigs :
          ConstructBaseUrl(c) = baseUrl => baseUrl = ClaimedBase(c)
    /\ pc = "awaiting" => IsPrefix(UrlHref(baseUrl), requests[1].url)

(***************************************************************************)
(* C17: the datacenter, namespace and partition given at construction are  *)
(* used for queries: a request issued without per-call dc, ns or partition *)
(* options carries the values configured on the client (as the value of a  *)
(* query entry or of a header).                                            *)
(***************************************************************************)
\* the value of a query piece: the text after its first "="
WireValue(piece) ==
    IF Contains(piece, "=") THEN SubSeq(piece, First(piece, "=") + 1, Len(piece)) ELSE <<>>

\* the current request carries the text v
Carries(v) ==
    \/ \E i \in 1..Len(SentPieces) : WireValue(SentPieces[i]) = <<v>>
    \/ \E i \in 1..Len(requests[1].headers) : requests[1].headers[i].v = Str(v)

\* the configurations the client in this state may have been constructed with
ConstructedWith(c) ==
    /\ ConstructBaseUrl(c) = baseUrl
    /\ ConstructHeaders(c) = defaultHeaders

C17_ConfiguredScopeIsSent ==
    (pc = "awaiting" /\ ~call.options.given) =>
        \A c \in WideConfigs :
            ConstructedWith(c) =>
                /\ c.dc # "" => Carries(c.dc)
                /\ c.namespace # "" => Carries(c.namespace)
                /\ c.partition # "" => Carries(c.partition)

(***************************************************************************)
(* C18: the query entries of a built URL follow the query-parameter        *)
(* mapping, its keys taken in mapping order: a sequence value gives one    *)
(* entry per element, in element order, under the same key; an absent      *)
(* value gives nothing; every other value gives a single entry holding the *)
(* value's string form.                                                    *)
(***************************************************************************)
\* the string form of a value
StringForm(v) ==
    CASE v.t \in {"str", "num", "bool"} -> v.s
      [] v.t = "null"                  -> "null"
      [] OTHER                         -> "[object Object]"

\* the name=value pieces the claim gives a mapping
RECURSIVE ClaimedPieces(_)
ClaimedPieces(params) ==
    IF params = <<>> THEN <<>>
    ELSE LET key   == Head(params).k
             value == Head(params).v
         IN  (CASE value.t = "list" ->
                     [i \in 1..Len(value.items) |-> key \o <<"=", value.items[i]>>]
                [] value.t = "undefined" -> <<>>
                [] OTHER -> <<key \o <<"=", StringForm(value)>>>>)
               \o ClaimedPieces(Tail(params))

C18_QueryEntries ==
    (pc # "idle" /\ call.op = "agent.self" /\ call.options.given) =>
        /\ Sent
        /\ SentPieces = ClaimedPieces(call.options.e)

(***************************************************************************)
(* C19: the headers of every request are the default headers merged with   *)
(* the per-call headers, the per-call value winning where both have a key  *)
(* (the only other header being the content type chosen for a body); when  *)
(* a token was configured the defaults hold it as X-Consul-Token, also if  *)
(* the configured extra headers have an entry of that name, so the request *)
(* carries it unless a per-call header replaces it.                        *)
(***************************************************************************)
C19_HeadersMerged ==
    pc = "awaiting" =>
        LET sent    == requests[1].headers
            percall == HeadersOf(call.op)
        IN  /\ \A i \in 1..Len(percall) : Get(sent, percall[i].k) = percall[i].v
            /\ \A i \in 1..Len(defaultHeaders) :
                  ~Has(percall, defaultHeaders[i].k)
                      => Get(sent, defaultHeaders[i].k) = defaultHeaders[i].v
            /\ \A i \in 1..Len(sent) :
                  \/ Has(percall, sent[i].k)
                  \/ Has(defaultHeaders, sent[i].k)
                  \/ sent[i].k = "Content-Type"
            /\ \A i, j \in 1..Len(sent) : sent[i].k = sent[j].k => i = j
            /\ \A c \in WideConfigs :
                  (ConstructedWith(c) /\ c.token # "") =>
                      /\ Get(defaultHeaders, "X-Consul-Token") = Str(c.token)
                      /\ ~Has(percall, "X-Consul-Token")
                            => Get(sent, "X-Consul-Token") = Str(c.token)

\* snapshot.restore on a client configured with a token and with extra
\* headers naming a token and a content type: the request has the
\* configured token, the extra header and the per-call content type
C19_Witness ==
    /\ pc = "awaiting"
    /\ call.op = "snapshot.restore"
    /\ Get(defaultHeaders, "Content-Type") = Str("text/plain")
    /\ ConstructedWith([NoConfig EXCEPT !.token = "T",
                                        !.headers = <<Entry("X-Consul-Token", Str("H")),
                                                      Entry("X-Extra", Str("e")),
                                                      Entry("Content-Type", Str("text/plain"))>>])
    /\ Get(requests[1].headers, "X-Consul-Token") = Str("T")
    /\ Get(requests[1].headers, "X-Extra") = Str("e")
    /\ Get(requests[1].headers, "Content-Type") = Str("application/octet-stream")

(***************************************************************************)
(* C20: a request with a body and no explicit content type has the         *)
(* octet-stream content type when the body is raw bytes or text (a string, *)
(* an ArrayBuffer, a Blob, a Buffer) and the JSON content type otherwise;  *)
(* the body is serialised to JSON text exactly when the content type is    *)
(* JSON and the body is a structured value, and is otherwise handed over   *)
(* unchanged.                                                              *)
(***************************************************************************)
\* the body the current method hands to the transport
GivenBody == BodyOf(call.op, call.body, call.options)

RawOrText(body) == body.t \in {"str", "arraybuffer", "blob", "buffer"}

C20_ContentNegotiation ==
    (/\ pc = "awaiting"
     /\ Truthy(GivenBody)
     /\ ~Has(defaultHeaders, "Content-Type")
     /\ ~Has(HeadersOf(call.op), "Content-Type")) =>
        LET contentType == Get(requests[1].headers, "Content-Type")
        IN  IF RawOrText(GivenBody)
            THEN /\ contentType = Str("application/octet-stream")
                 /\ requests[1].body = GivenBody
            ELSE /\ contentType = Str("application/json")
                 /\ requests[1].body.t = "jsontext"

(***************************************************************************)
(* C21: on every non-success status the transport fails with an error      *)
(* that carries the status code, the status text and the body text, the    *)
(* placeholder "Unknown error" standing for the body when reading it       *)
(* fails; the response is never decoded into a result value.               *)
(***************************************************************************)
\* the failure the claim describes for the current response
ClaimedHttpFailure ==
    [type       |-> "HttpError",
     status     |-> response.status,
     statusText |-> response.statusText,
     text       |-> IF response.readFails THEN "Unknown error" ELSE response.text]

C21_HttpFailure ==
    (Done /\ Sent /\ response # NoResponse /\ ~Ok(response)) =>
        /\ call.op \in PassThroughOps => outcome = Thrown(ClaimedHttpFailure)
        /\ call.op \in WriteOps \cup SingularOps => logs = <<ClaimedHttpFailure>>
        /\ outcome.kind = "return" => outcome.v \in {False, Null, List(<<>>)}

\* status.leader met a 500 whose body could not be read and raised the HTTP
\* failure with the placeholder
C21_Witness ==
    /\ Done
    /\ call.op = "status.leader"
    /\ response.status = 500
    /\ response.readFails
    /\ outcome.kind = "throw"
    /\ outcome.err.status = 500
    /\ outcome.err.text = "Unknown error"

(***************************************************************************)
(* C22: under the default (json) response shape a successful response      *)
(* whose body is not valid JSON is returned as its raw text; no decode     *)
(* error is raised, also when the body can be read only once.              *)
(***************************************************************************)
\* the methods that return what the json shape decoded, as it is
JsonPassThroughOps == PassThroughOps \ {"snapshot.save", "session.create"}

C22_InvalidJsonYieldsText ==
    (/\ Done
     /\ call.op \in JsonPassThroughOps
     /\ Sent
     /\ Ok(response)
     /\ ~response.contentLength0
     /\ ~response.parses
     /\ ~response.readFails) => outcome = Returned(Str(response.text))

(***************************************************************************)
(* C23: under the default response shape a successful response whose       *)
(* content-length header is "0" decodes to null without its body being     *)
(* read or parsed; under the text, raw-bytes and binary-blob shapes the    *)
(* header plays no role.                                                   *)
(***************************************************************************)
\* the current response with the other content-length
OtherLength == [response EXCEPT !.contentLength0 = ~@]

C23_ContentLengthZero ==
    (Done /\ Sent /\ response # NoResponse /\ Ok(response)) =>
        /\ (response.contentLength0 /\ call.op \in JsonPassThroughOps)
              => outcome = Returned(Null)
        /\ (call.op = "snapshot.save" /\ ~response.readFails)
              => outcome = Returned(Val("arraybuffer", response.text, <<>>, <<>>))
        /\ \A shape \in {"text", "arraybuffer", "blob"} :
              Decode(response, shape) = Decode(OtherLength, shape)

\* agent.self got a 200 with content-length 0 whose body cannot be read,
\* and returned null
C23_Witness ==
    /\ Done
    /\ call.op = "agent.self"
    /\ response.status = 200
    /\ response.contentLength0
    /\ response.readFails
    /\ outcome = Returned(Null)

(***************************************************************************)
(* C24: every failure that an operation swallows, whether into false, into *)
(* null or into an empty list, produces a diagnostic log entry before the  *)
(* operation returns; an operation that succeeds or that propagates its    *)
(* failure logs nothing.                                                   *)
(***************************************************************************)
\* the operations whose catch block turns a failure into a value
SwallowingOps == WriteOps \cup SingularOps \cup KVListOps \cup {"kv.get"}

\* the call's failure was swallowed
Swallowed == Failed /\ call.op \in SwallowingOps /\ outcome.kind = "return"

C24_SwallowedFailuresAreLogged ==
    Done => (Swallowed <=> logs # <<>>)

(***************************************************************************)
(* C25: for any number of calls issued concurrently on one client and any  *)
(* interleaving of their request and response steps, the client's base URL *)
(* and default headers stay equal to their construction-time values, and   *)
(* each call's request and result depend only on that call's own arguments *)
(* and its own response: a header or a parameter set for one call never    *)
(* appears in another call's request.                                      *)
(***************************************************************************)
\* what the call in slot i sends, from its own arguments and the client as
\* it was constructed
OwnRequests(i) ==
    LET c        == call[i]
        prepared == PrepareRequest(ConstructBaseUrl(call[0].options),
                                   ConstructHeaders(call[0].options),
                                   Method(c.op), Path(c.op, c.arg),
                                   RequestOptions(c.op, c.body, c.options))
    IN  IF prepared.ok THEN <<prepared.req>> ELSE <<>>

\* what the call in slot i can end with, from its own arguments and response
OwnOutcomes(i) ==
    LET c == call[i]
    IN  IF requests[i] = <<>>
        THEN {Settle(c.op, Thrown(TypeError("Invalid URL")), c.options)}
        ELSE IF response[i] # NoResponse
        THEN {Settle(c.op, Decode(response[i], ResponseTypeOf(c.op)), c.options)}
        ELSE {Settle(c.op, Thrown(err), c.options) : err \in NetworkErrors}

\* the header names the call in slot i can account for
OwnHeaderNames(i) ==
    {"Content-Type"}
      \cup {e.k : e \in {ConstructHeaders(call[0].options)[n] :
                            n \in 1..Len(ConstructHeaders(call[0].options))}}
      \cup {e.k : e \in {HeadersOf(call[i].op)[n] : n \in 1..Len(HeadersOf(call[i].op))}}

C26_SnapshotTransfer ==
    /\ (Sent /\ call.op = "snapshot.save") =>
          /\ requests[1].method = "GET"
          /\ requests[1].body = Undefined
          /\ (Done /\ response # NoResponse /\ Ok(response) /\ ~response.readFails)
                => outcome = Returned(ArrayBuf(response.text))
    /\ (Sent /\ call.op = "snapshot.restore") =>
          /\ requests[1].method = "PUT"
          /\ Get(requests[1].headers, "Content-Type") = Str("application/octet-stream")
          /\ requests[1].body = call.body

\* restore's result
C26_RestoreIsBoolean ==
    (Done /\ call.op = "snapshot.restore") =>
        /\ outcome.kind = "return"
        /\ (~Sent \/ ~Ok(response)) => (outcome = Returned(False) /\ logs # <<>>)
        /\ (Sent /\ Ok(response) /\ ~response.readFails) => outcome = Returned(True)

C26_SnapshotSaveAndRestore == C26_SnapshotTransfer /\ C26_RestoreIsBoolean

C28_KVGetShapes ==
    (Done /\ call.op = "kv.get" /\ ~Failed) =>
        /\ Data \in {Null, Str(""), Num("0"), False, List(<<>>)} => outcome = Returned(Null)
        /\ ~Truthy(Data) => outcome = Returned(Null)
        /\ (Option("raw") = True /\ Truthy(Data) /\ Data # List(<<>>))
              => outcome = Returned(Data)
        /\ (~Truthy(Option("raw")) /\ Data.t = "list" /\ Len(Data.items) >= 2)
              => outcome = Returned(Obj(Data.items[1]))

\* kv.get with raw: true decoded the number 0 and returned null
C28_Witness ==
    /\ Done
    /\ call.op = "kv.get"
    /\ ~Failed
    /\ Option("raw") = True
    /\ Data = Num("0")
    /\ outcome = Returned(Null)

(***************************************************************************)
(* C29: in health and catalog reads every option other than consistency,   *)
(* nodeMeta and a truthy mergeCentralConfig is forwarded as a query entry  *)
(* under its own name with the string form of its value whenever the       *)
(* caller provided it; in particular health.service with passing: false    *)
(* sends passing=false rather than omitting the key, and index: 0 is sent  *)
(* as index=0.                                                             *)
(***************************************************************************)
\* the option is one the claim says is forwarded under its own name
ForwardedAsIs(e) ==
    /\ e.k \notin {K("consistency"), K("nodeMeta")}
    /\ ~(e.k = K("mergeCentralConfig") /\ Truthy(e.v))

C29_OptionsForwarded ==
    (pc = "awaiting" /\ call.op \in CatalogReads \cup HealthReads) =>
        \A n \in 1..Len(call.options.e) :
            ForwardedAsIs(call.options.e[n]) =>
                /\ CountName(call.options.e[n].k) = 1
                /\ CountPiece(call.options.e[n].k
                                \o <<"=", StringForm(call.options.e[n].v)>>) = 1

\* health.service with index: 0 and passing: false sent index=0 and
\* passing=false
C29_Witness ==
    /\ pc = "awaiting"
    /\ call.op = "health.service"
    /\ Option("index") = Num("0")
    /\ Option("passing") = False
    /\ CountPiece(<<"index", "=", "0">>) = 1
    /\ CountPiece(<<"passing", "=", "false">>) = 1

(***************************************************************************)
(* C30: agent.checkUpdate(checkId, state, options) issues one PUT to       *)
(* /agent/check/update/<checkId> whose JSON body holds Status = state and  *)
(* Output = options.note (Output left out when no note is given), and      *)
(* forwards the whole options bag as query parameters, so a given note is  *)
(* sent both in the body and as the query entry note=<note>; it follows    *)
(* the boolean convention: true when the request succeeded, false and a    *)
(* logged error when it failed, never an error to the caller.              *)
(***************************************************************************)
\* the body the claim describes for the current call
ClaimedCheckUpdateBody ==
    Val("jsontext", "map:", <<>>,
        <<Entry("Status", call.body)>>
          \o (IF Option("note") # Undefined THEN <<Entry("Output", Option("note"))>>
              ELSE <<>>))

\* what checkUpdate sends
C30_CheckUpdateRequest ==
    (Sent /\ call.op = "agent.checkUpdate") =>
        /\ Len(requests) = 1
        /\ requests[1].method = "PUT"
        /\ LET path == baseUrl \o <<"/", "agent", "/", "check", "/", "update", "/">> \o call.arg
           IN  /\ IsPrefix(path, requests[1].url)
               /\ Len(requests[1].url) > Len(path) => requests[1].url[Len(path) + 1] = "?"
        /\ Get(requests[1].headers, "Content-Type") = Str("application/json")
        /\ requests[1].body = ClaimedCheckUpdateBody
        /\ SentPieces = ClaimedPieces(call.options.e)
        /\ Option("note") # Undefined
              => CountPiece(<<"note", "=", StringForm(Option("note"))>>) = 1

\* checkUpdate's result
C30_CheckUpdateIsBoolean ==
    (Done /\ call.op = "agent.checkUpdate") =>
        /\ outcome.kind = "return"
        /\ (~Sent \/ ~Ok(response)) => (outcome = Returned(False) /\ logs # <<>>)
        /\ (Sent /\ Ok(response) /\ ~response.readFails) => outcome = Returned(True)

C30_CheckUpdate == C30_CheckUpdateRequest /\ C30_CheckUpdateIsBoolean

====
